---- MODULE Spec2Model ----
(***************************************************************************)
(* A model of the trading cycle (trading_engine.py), of the tiered quote   *)
(* pipeline (market_data.py) and of the ledger the engine talks to.        *)
(*                                                                         *)
(* Money is kept in thousandths of a yuan (suffix M) so that the fee rate  *)
(* 0.001 stays exact: fee = quantity * price * 0.001 is quantity * price   *)
(* thousandths.  Prices are whole yuan.                                    *)
(***************************************************************************)
EXTENDS Integers, Sequences, FiniteSets, TLC

VARIABLES
    cash,           \* ledger: the account's cash, in thousandths
    positions,      \* ledger: held symbol -> [quantity, avg_price, leverage, side]
    pc,             \* per cycle: where execute_trading_cycle stands
    market_state,   \* per cycle: symbol -> price, of the symbols that got a quote
    portfolio,      \* per cycle: the portfolio read at line 30
    decisions,      \* per cycle: the decision map, in insertion order
    idx,            \* per cycle: number of decision entries already consumed
    results,        \* per cycle: execution_results
    calls,          \* per cycle: the ledger calls made so far in this cycle
    ret,            \* per cycle: what execute_trading_cycle returned
    oracle_calls,   \* per cycle: number of make_decision calls in this cycle
    stale_write,    \* per cycle: it changed a ledger another cycle had changed since its read
    last_market_open_state,  \* fetcher: what the previous get_prices found
    live_own,       \* fetcher: _last_live_prices, when it is a dict of its own
    live_ref,       \* fetcher: whether _last_live_prices is a cached dict, and which
    last_live_date, \* fetcher: _last_live_date
    cache,          \* fetcher: _cache and _cache_time, by symbol set
    store,          \* store: the latest daily closing price of each symbol
    clock,          \* time.time() and datetime.now(), in seconds
    polls,          \* number of get_prices calls so far
    quotes,         \* what the last get_prices returned
    poll,           \* what the last get_prices was asked and did
    cache_entry,    \* threads: _cache[cache_key] of one symbol set
    cache_time,     \* threads: _cache_time[cache_key] of that symbol set
    tpc,            \* per thread: where its get_current_prices call stands
    observed,       \* per thread: what its call read and returned
    arg,            \* functions: the arguments of a call of a pure function
    res             \* functions: what the call returned, once it has

evars == <<cash, positions, pc, market_state, portfolio, decisions, idx,
           results, calls, ret, oracle_calls, stale_write>>

mvars == <<last_market_open_state, live_own, live_ref, last_live_date, cache,
           store, clock, polls, quotes, poll>>

cvars == <<cache_entry, cache_time, tpc, observed>>

pvars == <<arg, res>>

vars == <<evars, mvars, cvars, pvars>>

---------------------------------------------------------------------------
(* Bounds and inputs *)

MaxDecisions == 2       \* entries in one decision map

max_positions == 3
FeeDen == 1000          \* trade_fee_rate = 1 / FeeDen

Tracked == {"A", "B", "C", "D"}
Untracked == {"X"}
Symbols == Tracked \cup Untracked

Procs == {1, 2}

\* the account at the start of a cycle: cash 100 yuan, and up to
\* max_positions of the tracked symbols held (2 shares bought at 10 yuan)
InitialCashesM == {100000}
InitialHoldings == {{}, {"A", "B"}, {"A", "B", "C"}}
InitialPosition ==
    [quantity |-> 2, avg_priceM |-> 10000, leverage |-> 1, side |-> "long"]

\* quotes: 0 is the placeholder of a failed fetch
Prices == {0, 10}

---------------------------------------------------------------------------
(* Python values of a decision's fields.  v holds a number in tenths. *)

Absent == [t |-> "absent", v |-> 0]
None == [t |-> "none", v |-> 0]
Text == [t |-> "text", v |-> 0]
Num(tenths) == [t |-> "num", v |-> tenths]

\* dict.get(key, default)
Get(x, default) == IF x.t = "absent" THEN default ELSE x

\* truncation toward zero of a / b, b > 0
Trunc(a, b) == IF a >= 0 THEN a \div b ELSE -((-a) \div b)

\* int(x): fails on None and on non-numeric text, truncates a float
IntOk(x) == x.t = "num"
IntOf(x) == Trunc(x.v, 10)

\* float(x): fails on None and on non-numeric text
FloatOk(x) == x.t = "num"

\* str.lower() on the signals the oracle is given
Lower(s) == CASE s = "BUY_TO_ENTER" -> "buy_to_enter"
              [] s = "Hold" -> "hold"
              [] OTHER -> s

\* an empty dict
EmptyMap == [s \in {} |-> 0]

\* floor(a * r / d) for r >= 0 and d > 0, without forming a * r
Scale(a, r, d) == (a \div d) * r + ((a % d) * r) \div d

\* f with v at p
Set(f, p, v) == [f EXCEPT ![p] = v]

Min(a, b) == IF a <= b THEN a ELSE b
Max(a, b) == IF a >= b THEN a ELSE b

---------------------------------------------------------------------------
(* Decisions the oracle may return *)

Decision(sig_t, sig, qty, lev, risk) ==
    [obj |-> TRUE, sig_t |-> sig_t, sig |-> sig,
     quantity |-> qty, leverage |-> lev, risk_budget_pct |-> risk]

\* a decision entry that is not an object (a string, a number, null)
NonObject ==
    [obj |-> FALSE, sig_t |-> "absent", sig |-> "",
     quantity |-> Absent, leverage |-> Absent, risk_budget_pct |-> Absent]

DecisionShapes ==
    { NonObject,
      Decision("int", "", Absent, Absent, Absent),
      Decision("absent", "", Absent, Absent, Absent),
      Decision("str", "hold", Absent, Absent, Absent),
      Decision("str", "sell_to_enter", Num(10), Absent, Absent),
      Decision("str", "close_position", Absent, Absent, Absent),
      Decision("str", "buy_to_enter", Num(50), Absent, Absent),
      Decision("str", "BUY_TO_ENTER", Num(90), Num(10), Num(30)),
      Decision("str", "buy_to_enter", Text, Absent, Absent) }

\* further entries under a symbol that is not tracked
UntrackedShapes ==
    { NonObject,
      Decision("int", "", Absent, Absent, Absent),
      Decision("str", "close_position", Absent, Absent, Absent) }

Entry(symbol, decision) == [symbol |-> symbol, decision |-> decision]

RECURSIVE DistinctKeys(_)
DistinctKeys(s) ==
    IF Len(s) <= 1 THEN TRUE
    ELSE /\ \A i \in 2..Len(s) : s[i].symbol # s[1].symbol
         /\ DistinctKeys(Tail(s))

Entries ==
    { Entry(s, d) : s \in Tracked, d \in DecisionShapes }
    \cup { Entry(s, Decision("str", "buy_to_enter", Num(10), Absent, Absent)) :
            s \in Untracked }
    \cup { Entry(s, d) : s \in Untracked, d \in UntrackedShapes }

\* decision maps: at most MaxDecisions entries, keys distinct
DecisionMaps ==
    UNION { { m \in [1..n -> Entries] : DistinctKeys(m) } : n \in 0..MaxDecisions }

---------------------------------------------------------------------------
(* The ledger store (db): cash and positions, changed only by its calls *)

Call(op, symbol, signal, quantity, price, leverage, pnlM, feeM, ok) ==
    [op |-> op, symbol |-> symbol, signal |-> signal, quantity |-> quantity,
     price |-> price, leverage |-> leverage, pnlM |-> pnlM, feeM |-> feeM,
     ok |-> ok]

Ledger(c, ps) == [cashM |-> c, positions |-> ps]

\* quantity * price / leverage, in thousandths
MarginM(amountM, leverage) ==
    IF leverage > 0 THEN amountM \div leverage
    ELSE IF leverage < 0 THEN -(amountM \div (-leverage))
    ELSE 0

\* update-position: open the position or add to it; the margin leaves cash
UpdatePosition(L, c) ==
    LET held == c.symbol \in DOMAIN L.positions
        old == IF held THEN L.positions[c.symbol] ELSE InitialPosition
        quantity == IF held THEN old.quantity + c.quantity ELSE c.quantity
        avg == IF held /\ quantity # 0
               THEN (old.quantity * old.avg_priceM + c.quantity * c.price * 1000)
                    \div quantity
               ELSE c.price * 1000
        pos == [quantity |-> quantity, avg_priceM |-> avg,
                leverage |-> c.leverage, side |-> "long"]
    IN Ledger(L.cashM - MarginM(c.quantity * c.price * 1000, c.leverage),
              [s \in DOMAIN L.positions \cup {c.symbol} |->
                  IF s = c.symbol THEN pos ELSE L.positions[s]])

\* close-position: the position goes, its margin returns to cash
ClosePosition(L, c) ==
    IF c.symbol \notin DOMAIN L.positions THEN L
    ELSE LET old == L.positions[c.symbol]
         IN Ledger(L.cashM + MarginM(old.quantity * old.avg_priceM, old.leverage),
                   [s \in DOMAIN L.positions \ {c.symbol} |-> L.positions[s]])

\* add-trade: the trade's fee (a buy) or net pnl (a close) reaches cash
AddTrade(L, c) ==
    Ledger(L.cashM + (IF c.signal = "close_position" THEN c.pnlM ELSE -c.feeM),
           L.positions)

ApplyCall(L, c) ==
    IF ~c.ok THEN L
    ELSE CASE c.op = "update_position" -> UpdatePosition(L, c)
           [] c.op = "close_position" -> ClosePosition(L, c)
           [] c.op = "add_trade" -> AddTrade(L, c)
           [] OTHER -> L

RECURSIVE ApplyCalls(_, _)
ApplyCalls(L, cs) ==
    IF cs = <<>> THEN L ELSE ApplyCalls(ApplyCall(L, Head(cs)), Tail(cs))

\* get-portfolio
GetPortfolioOf(c, ps) == Ledger(c, ps)

MutationOps == {"update_position", "close_position", "add_trade"}
LedgerOps == MutationOps \cup {"add_conversation", "record_account_value"}

---------------------------------------------------------------------------
(* The executor's per-decision steps (trading_engine.py) *)

Result(coin, kind, signal, quantity, price, leverage, feeM, pnlM, error) ==
    [coin |-> coin, kind |-> kind, signal |-> signal, quantity |-> quantity,
     price |-> price, leverage |-> leverage, feeM |-> feeM, pnlM |-> pnlM,
     error |-> error]

ErrorResult(symbol, why) == Result(symbol, "error", "", 0, 0, 0, 0, 0, why)

\* a boundary that reports the symbol as done
CaughtSilently(symbol) == Result(symbol, "ok", "", 0, 0, 0, 0, 0, "")

\* the per-symbol error boundary: except Exception -> {'coin', 'error': str(e)}
Caught(symbol) == ErrorResult(symbol, "exception")

Outcome(result, cs) == [result |-> result, calls |-> cs]

\* sizing that replaces only a non-positive request
SizedQuantityNoCeiling(requested, max_affordable_qty, risk_based_qty) ==
    IF requested <= 0
    THEN Min(max_affordable_qty,
             IF risk_based_qty > 0 THEN risk_based_qty ELSE max_affordable_qty)
    ELSE requested

\* sizing that never falls back from an empty risk budget to what is affordable
SizedQuantityRiskOnly(requested, max_affordable_qty, risk_based_qty) ==
    IF requested <= 0 \/ requested > max_affordable_qty
    THEN Min(max_affordable_qty, risk_based_qty)
    ELSE requested

\* the branch of line 166-167
SizedQuantity(requested, max_affordable_qty, risk_based_qty) ==
    IF requested <= 0 \/ requested > max_affordable_qty
    THEN Min(max_affordable_qty,
             IF risk_based_qty > 0 THEN risk_based_qty ELSE max_affordable_qty)
    ELSE requested

\* total_required > portfolio['cash'], with total_required =
\* quantity * price / leverage + quantity * price * fee_rate
ExceedsCash(quantity, price, leverage, cashM) ==
    LET amount == quantity * price
    IN IF leverage > 0
       THEN amount * FeeDen + amount * leverage > cashM * leverage
       ELSE amount * FeeDen + amount * leverage < cashM * leverage

\* a cap that lets the account hold max_positions + 1 symbols
CapReachedAbove(symbol, pf) ==
    /\ symbol \notin DOMAIN pf.positions
    /\ Cardinality(DOMAIN pf.positions) > max_positions

\* the position cap of line 157, on the portfolio the cycle read
CapReached(symbol, pf) ==
    /\ symbol \notin DOMAIN pf.positions
    /\ Cardinality(DOMAIN pf.positions) >= max_positions

\* fail names the ledger call that raises in this step, if any:
\* "position" (update_position / close_position) or "trade" (add_trade)
\* an executor that records the trade whatever the position call did
IssuedRegardless(mutation, trade, fail) == <<mutation, trade>>

\* lines 182-199 and 240-255: the position call, whose exception is raised
\* again before add_trade is reached, then add_trade
Issued(mutation, trade, fail) ==
    IF fail = "position" THEN <<mutation>> ELSE <<mutation, trade>>

ExecuteBuy(symbol, decision, ms, pf, fail) ==
    LET quantity0 == Get(decision.quantity, Num(0))
        leverage0 == Get(decision.leverage, Num(10))
        risk0 == Get(decision.risk_budget_pct, Num(30))
    IN IF ~IntOk(leverage0) \/ symbol \notin DOMAIN ms
       THEN Outcome(Caught(symbol), <<>>)
       ELSE IF CapReached(symbol, pf)
       THEN Outcome(ErrorResult(symbol, "max positions"), <<>>)
       ELSE IF ms[symbol] = 0 \/ ~FloatOk(risk0) \/ ~IntOk(quantity0)
       THEN Outcome(Caught(symbol), <<>>)
       ELSE
       LET leverage == IntOf(leverage0)
           price == ms[symbol]
           max_affordable_qty == Trunc(pf.cashM, price * (FeeDen + 1))
           risk10 == Min(Max(risk0.v, 10), 50)
           risk_based_qty ==
               Trunc(Scale(pf.cashM, risk10, 1000), price * (FeeDen + 1))
           quantity ==
               SizedQuantity(IntOf(quantity0), max_affordable_qty, risk_based_qty)
           feeM == quantity * price
           update == Call("update_position", symbol, "buy_to_enter", quantity,
                          price, leverage, 0, 0, fail # "position")
           trade == Call("add_trade", symbol, "buy_to_enter", quantity,
                         price, leverage, 0, feeM, fail # "trade")
       IN IF quantity <= 0
          THEN Outcome(ErrorResult(symbol, "no cash"), <<>>)
          ELSE IF leverage = 0
          THEN Outcome(Caught(symbol), <<>>)
          ELSE IF ExceedsCash(quantity, price, leverage, pf.cashM)
          THEN Outcome(ErrorResult(symbol, "insufficient funds"), <<>>)
          ELSE IF fail \in {"position", "trade"}
          THEN Outcome(Caught(symbol), Issued(update, trade, fail))
          ELSE Outcome(Result(symbol, "ok", "buy_to_enter", quantity, price,
                              leverage, feeM, 0, ""),
                       Issued(update, trade, fail))

\* a close that books the gross profit
NetPnlUncharged(gross_pnlM, feeM) == gross_pnlM

\* line 237
NetPnl(gross_pnlM, feeM) == gross_pnlM - feeM

ExecuteClose(symbol, decision, ms, pf, fail) ==
    IF symbol \notin DOMAIN pf.positions
    THEN Outcome(ErrorResult(symbol, "position not found"), <<>>)
    ELSE IF symbol \notin DOMAIN ms
    THEN Outcome(Caught(symbol), <<>>)
    ELSE
    LET position == pf.positions[symbol]
        current_price == ms[symbol]
        quantity == position.quantity
        gross_pnlM == (current_price * 1000 - position.avg_priceM) * quantity
        feeM == quantity * current_price
        net_pnlM == NetPnl(gross_pnlM, feeM)
        close == Call("close_position", symbol, "close_position", quantity,
                      current_price, position.leverage, 0, 0, fail # "position")
        trade == Call("add_trade", symbol, "close_position", quantity,
                      current_price, position.leverage, net_pnlM, feeM,
                      fail # "trade")
    IN IF fail \in {"position", "trade"}
       THEN Outcome(Caught(symbol), Issued(close, trade, fail))
       ELSE Outcome(Result(symbol, "ok", "close_position", quantity,
                           current_price, position.leverage, feeM, net_pnlM, ""),
                    Issued(close, trade, fail))

\* decision.get('signal', '').lower() raises AttributeError, outside the
\* try of line 127, when the entry is no object or its signal is no text
SignalRaises(decision) == ~decision.obj \/ decision.sig_t \notin {"absent", "str"}

SignalOf(decision) ==
    IF decision.sig_t = "absent" THEN "" ELSE Lower(decision.sig)

\* the body of the try of lines 127-145 for one entry
ExecuteOne(symbol, decision, ms, pf, fail) ==
    LET signal == SignalOf(decision)
    IN CASE signal = "buy_to_enter" -> ExecuteBuy(symbol, decision, ms, pf, fail)
         [] signal = "sell_to_enter" ->
              Outcome(ErrorResult(symbol, "short unsupported"), <<>>)
         [] signal = "close_position" ->
              IF symbol \notin DOMAIN pf.positions
              THEN Outcome(ErrorResult(symbol, "no position to close"), <<>>)
              ELSE ExecuteClose(symbol, decision, ms, pf, fail)
         [] signal = "hold" ->
              Outcome(Result(symbol, "info", "hold", 0, 0, 0, 0, 0, ""), <<>>)
         [] OTHER -> Outcome(ErrorResult(symbol, "unknown signal"), <<>>)

---------------------------------------------------------------------------
(* MarketDataFetcher (market_data.py) and the daily-price store *)

MaxPolls == 3           \* get_prices calls in one run
MaxClock == 6           \* seconds the clock may reach
DayLength == 6          \* seconds from one midnight to the next
cache_duration == 5     \* MARKET_API_CACHE, seconds

\* db.get_stock_configs() of the fetcher
Stocks == {"A", "B"}
\* the symbol lists get_prices is asked for
Requests == {{"A"}, {"A", "B"}}
\* what the upstream answers: a price for every line, a reply with no
\* usable line, or an exception (timeout, connection error)
LivePrices == {11, 12}
Reply(kind, price) == [kind |-> kind, price |-> price]
Raises == Reply("raises", 0)
Blank == Reply("blank", 0)
Replies == { Reply("prices", pr) : pr \in LivePrices } \cup {Raises, Blank}
\* seconds that pass between two calls
Elapses == {3}

NoDate == -1
\* datetime.now().date()
Today == clock \div DayLength
NoRow == [price |-> -1, price_date |-> NoDate]
NoEntry == [present |-> FALSE, prices |-> EmptyMap, time |-> 0]
OwnDict == [alias |-> FALSE, key |-> {}]
Alias(key) == [alias |-> TRUE, key |-> key]

\* a quote payload; source "" when the dict has no 'source' key, and
\* placeholder marks the {'price': 0, 'name', 'exchange'} of line 233
Payload(price, source, price_date, placeholder) ==
    [price |-> price, source |-> source, price_date |-> price_date,
     placeholder |-> placeholder]

\* payload['source'] = ...; payload['price_date'] = ... on every payload
Tag(d, source, price_date) ==
    [s \in DOMAIN d |-> [d[s] EXCEPT !.source = source, !.price_date = price_date]]

\* d1 with the entries of d2 written over it
Merge(d1, d2) ==
    [s \in DOMAIN d1 \cup DOMAIN d2 |-> IF s \in DOMAIN d2 THEN d2[s] ELSE d1[s]]

\* upsert-daily-price, one row; the store keeps the latest row of a symbol
Upsert(st, symbol, price, price_date) ==
    IF st[symbol].price_date <= price_date
    THEN [st EXCEPT ![symbol] = [price |-> price, price_date |-> price_date]]
    ELSE st

\* the upserts of one loop over the payloads of d, all dated price_date
UpsertAll(st, d, price_date) ==
    [s \in DOMAIN st |->
        IF s \in DOMAIN d THEN Upsert(st, s, d[s].price, price_date)[s] ELSE st[s]]

\* get-latest-daily-prices(symbols)
LatestDailyPrices(st, symbols) ==
    [s \in {x \in symbols \cap DOMAIN st : st[x] # NoRow} |-> st[s]]

\* lines 76-96
FormatStoredPrices(stored, symbols) ==
    [s \in symbols \cap DOMAIN stored |->
        Payload(stored[s].price, "closing", stored[s].price_date, FALSE)]

\* _last_live_prices: a dict of its own, or the very dict a cache entry holds
LastLive(c, own, ref) == IF ref.alias THEN c[ref.key].prices ELSE own

\* lines 192-195
CacheFresh(c, key, now) == c[key].present /\ now - c[key].time < cache_duration

\* lines 180-233: the dict returned, and how it was obtained
GetCurrentPrices(c, symbols, reply, now) ==
    LET key == Stocks \cap symbols
    IN IF key = {}
       THEN [prices |-> EmptyMap, via |-> "none", key |-> key]
       ELSE IF CacheFresh(c, key, now)
       THEN [prices |-> c[key].prices, via |-> "cache", key |-> key]
       ELSE IF reply = Raises
       THEN [prices |-> [s \in key |-> Payload(0, "", NoDate, TRUE)],
             via |-> "raise", key |-> key]
       ELSE IF reply = Blank
       THEN [prices |-> EmptyMap, via |-> "upstream", key |-> key]
       ELSE [prices |-> [s \in key |-> Payload(reply.price, "", NoDate, FALSE)],
             via |-> "upstream", key |-> key]

\* lines 228-229: a reply read from upstream replaces the entry of its key
Refresh(c, got, now) ==
    IF got.via = "upstream"
    THEN [c EXCEPT ![got.key] = [present |-> TRUE, prices |-> got.prices, time |-> now]]
    ELSE c

\* payloads are tagged in place: a cached dict keeps the tags
Retag(c, got, tagged) ==
    IF got.via \in {"cache", "upstream"}
    THEN [c EXCEPT ![got.key].prices = tagged]
    ELSE c

\* lines 98-110: the rows _persist_closing_prices upserts
PersistClosingPrices(st, snapshot, date, store_ok) ==
    IF snapshot = EmptyMap \/ date = NoDate \/ ~store_ok THEN st
    ELSE UpsertAll(st, snapshot, date)

\* what a get_prices call was asked and did: the symbols, what the window
\* gate said, whether _persist_closing_prices ran, how get_current_prices
\* answered and for which symbols, and the symbols the store had a price for
\* live: the latest live price of every symbol quoted live since the
\* market was last found closed
Observed(symbols, open, persisted, via, fetched, stored, live) ==
    [symbols |-> symbols, open |-> open, persisted |-> persisted, via |-> via,
     fetched |-> fetched, stored |-> stored, live |-> live]

\* the prices of the quotes of d that came from upstream
LivePricesOf(d) ==
    [s \in {x \in DOMAIN d : ~d[x].placeholder} |-> d[s].price]

\* persistence on every closed poll
ClosingTransitionAlways(market_open, last_open) == ~market_open

\* line 117
ClosingTransition(market_open, last_open) == ~market_open /\ last_open

\* lines 112-168, the market found open: lines 122-130
OpenPrices(symbols, reply) ==
    LET got == GetCurrentPrices(cache, symbols, reply, clock)
        detached == got.via = "upstream" /\ live_ref = Alias(got.key)
        live_prices == Tag(got.prices, "live", Today)
        cache1 == Refresh(cache, got, clock)
    IN /\ quotes' = live_prices
       /\ store' = store
       /\ IF got.prices # EmptyMap
          THEN /\ cache' = Retag(cache1, got, live_prices)
               /\ live_ref' = IF got.via = "raise" THEN OwnDict ELSE Alias(got.key)
               /\ live_own' = IF got.via = "raise" THEN live_prices ELSE EmptyMap
               /\ last_live_date' = Today
          ELSE /\ cache' = cache1
               /\ live_ref' = IF detached THEN OwnDict ELSE live_ref
               /\ live_own' = IF detached THEN cache[got.key].prices ELSE live_own
               /\ last_live_date' = last_live_date
       /\ poll' = Observed(symbols, TRUE, FALSE, got.via, got.key, {},
                           Merge(poll.live, LivePricesOf(got.prices)))

\* a closed-market poll that fetches every requested symbol
MissingSymbolsAll(symbols, formatted) == symbols

\* line 136
MissingSymbols(symbols, formatted) == symbols \ DOMAIN formatted

\* lines 112-168, the market found closed: lines 117-118 and 132-168
ClosedPrices(symbols, reply, store_ok) ==
    LET snapshot == LastLive(cache, live_own, live_ref)
        persisted == ClosingTransition(FALSE, last_market_open_state)
        store1 == IF persisted
                  THEN PersistClosingPrices(store, snapshot, last_live_date, store_ok)
                  ELSE store
        formatted == FormatStoredPrices(LatestDailyPrices(store1, symbols), symbols)
        missing_symbols == MissingSymbols(symbols, formatted)
        got == IF missing_symbols # {}
               THEN GetCurrentPrices(cache, missing_symbols, reply, clock)
               ELSE [prices |-> EmptyMap, via |-> "none", key |-> {}]
        detached == got.via = "upstream" /\ live_ref = Alias(got.key)
        cache1 == Refresh(cache, got, clock)
        ref1 == IF detached THEN OwnDict ELSE live_ref
        own1 == IF detached THEN cache[got.key].prices ELSE live_own
        fallback_prices == Tag(got.prices, "live_fallback", Today)
        cache2 == Retag(cache1, got, fallback_prices)
        \* lines 142-143 and 148
        base == LastLive(cache2, own1, ref1)
        merged == Merge(base, fallback_prices)
        ref2 == IF base = EmptyMap THEN OwnDict ELSE ref1
        last_live == LastLive(cache1, own1, ref1)
        fallback ==
            [s \in DOMAIN last_live \cap symbols |->
                [last_live[s] EXCEPT
                    !.source = IF @ = "" THEN "previous_live" ELSE @,
                    !.price_date = IF @ = NoDate THEN last_live_date ELSE @]]
    IN /\ poll' = Observed(symbols, FALSE, persisted, got.via, got.key,
                           DOMAIN formatted, EmptyMap)
       /\ IF got.prices # EmptyMap
          THEN /\ quotes' = Merge(formatted, fallback_prices)
               /\ live_ref' = ref2
               /\ live_own' = IF ref2.alias THEN own1 ELSE merged
               /\ cache' = IF ref2.alias
                           THEN [cache2 EXCEPT ![ref2.key].prices = merged]
                           ELSE cache2
               /\ store' = IF store_ok
                           THEN UpsertAll(store1, fallback_prices, Today)
                           ELSE store1
               /\ last_live_date' = Today
          ELSE /\ quotes' = IF formatted = EmptyMap /\ last_live # EmptyMap
                            THEN fallback ELSE formatted
               /\ live_ref' = ref1
               /\ live_own' = own1
               /\ cache' = cache1
               /\ store' = store1
               /\ last_live_date' = last_live_date

\* get_prices(symbols)
GetPrices(symbols) ==
    /\ polls < MaxPolls
    /\ polls' = polls + 1
    /\ \E open \in BOOLEAN, reply \in Replies, store_ok \in BOOLEAN :
          /\ last_market_open_state' = open
          /\ IF open
             THEN OpenPrices(symbols, reply)
             ELSE ClosedPrices(symbols, reply, store_ok)
    /\ UNCHANGED <<clock, evars, cvars, pvars>>

\* time passes between two calls
Tick ==
    /\ \E d \in Elapses : clock + d <= MaxClock /\ clock' = clock + d
    /\ UNCHANGED <<last_market_open_state, live_own, live_ref, last_live_date,
                   cache, store, polls, quotes, poll, evars, cvars, pvars>>

---------------------------------------------------------------------------
(* get_current_prices statement by statement, as threads sharing one       *)
(* fetcher run it for the same symbol set (the trading loop and the        *)
(* request handlers of the front end)                                      *)

MaxCalls == 2           \* get_current_prices calls of one thread
Threads == {1, 2}

\* the quotes of one upstream reply, named by the call that fetched them
Version(t, call) == [by |-> t, call |-> call]
NoVersion == Version(0, 0)

\* an entry of _cache_time: the time, and the quotes it was written for
Stamp(time, of) == [time |-> time, of |-> of]
NoStamp == Stamp(0, NoVersion)

\* what a call did: how it ended, the quotes it returned, and the quotes
\* that the timestamp it read belongs to
Seen(call, kind, got, stamp) ==
    [call |-> call, kind |-> kind, quotes |-> got, stamp |-> stamp]

ThreadFrame == UNCHANGED <<evars, mvars, pvars>>

\* line 193: if cache_key in self._cache
Lookup(t) ==
    /\ tpc[t] \in {"idle", "done"}
    /\ observed[t].call < MaxCalls
    /\ observed' = Set(observed, t,
                       Seen(observed[t].call + 1, "none", NoVersion, NoVersion))
    /\ tpc' = Set(tpc, t, IF cache_entry # NoVersion THEN "line194" ELSE "line197")
    /\ UNCHANGED <<cache_entry, cache_time>>
    /\ ThreadFrame

\* line 194: self._cache_time[cache_key] raises KeyError when the key is
\* not there; otherwise the age decides between the cache and upstream
CheckAge(t) ==
    /\ tpc[t] = "line194"
    /\ IF cache_time = NoStamp
       THEN /\ tpc' = Set(tpc, t, "done")
            /\ observed' = Set(observed, t, [observed[t] EXCEPT !.kind = "KeyError"])
       ELSE /\ tpc' = Set(tpc, t, IF clock - cache_time.time < cache_duration
                                  THEN "line195" ELSE "line197")
            /\ observed' = Set(observed, t, [observed[t] EXCEPT !.stamp = cache_time.of])
    /\ UNCHANGED <<cache_entry, cache_time>>
    /\ ThreadFrame

\* line 195: return self._cache[cache_key]
ReturnCached(t) ==
    /\ tpc[t] = "line195"
    /\ tpc' = Set(tpc, t, "done")
    /\ observed' = Set(observed, t,
                       [observed[t] EXCEPT !.kind = "cache", !.quotes = cache_entry])
    /\ UNCHANGED <<cache_entry, cache_time>>
    /\ ThreadFrame

\* lines 197-228: the upstream request; its reply goes into _cache, or its
\* exception ends the call with the placeholders of line 233
Fetch(t) ==
    /\ tpc[t] = "line197"
    /\ \E ok \in BOOLEAN :
          IF ok
          THEN /\ cache_entry' = Version(t, observed[t].call)
               /\ tpc' = Set(tpc, t, "line229")
               /\ observed' = Set(observed, t,
                                  [observed[t] EXCEPT
                                      !.quotes = Version(t, observed[t].call)])
          ELSE /\ tpc' = Set(tpc, t, "done")
               /\ observed' = Set(observed, t,
                                  [observed[t] EXCEPT !.kind = "placeholder"])
               /\ UNCHANGED cache_entry
    /\ UNCHANGED cache_time
    /\ ThreadFrame

\* lines 229-230: self._cache_time[cache_key] = time.time(); return prices
StoreTime(t) ==
    /\ tpc[t] = "line229"
    /\ cache_time' = Stamp(clock, observed[t].quotes)
    /\ tpc' = Set(tpc, t, "done")
    /\ observed' = Set(observed, t, [observed[t] EXCEPT !.kind = "upstream"])
    /\ UNCHANGED cache_entry
    /\ ThreadFrame

GetCurrentPricesStep(t) ==
    \/ Lookup(t)
    \/ CheckAge(t)
    \/ ReturnCached(t)
    \/ Fetch(t)
    \/ StoreTime(t)

\* __init__, lines 24-33, with an empty store
FetcherInit ==
    /\ last_market_open_state = FALSE
    /\ live_own = EmptyMap
    /\ live_ref = OwnDict
    /\ last_live_date = NoDate
    /\ cache = [k \in (SUBSET Stocks) \ {{}} |-> NoEntry]
    /\ store = [s \in Stocks |-> NoRow]
    /\ clock = 0
    /\ polls = 0
    /\ quotes = EmptyMap
    /\ poll = Observed({}, FALSE, FALSE, "none", {}, {}, EmptyMap)
    /\ cache_entry = NoVersion
    /\ cache_time = NoStamp
    /\ tpc = [t \in Threads |-> "idle"]
    /\ observed = [t \in Threads |-> Seen(0, "none", NoVersion, NoVersion)]

---------------------------------------------------------------------------
(* Pure functions, applied to arguments drawn at the start *)

NoArg == [fn |-> "none"]
Pending == [done |-> FALSE]

\* no function is being applied
NoCall == arg = NoArg /\ res = Pending

\* the call of fn returns value
Returns(fn, value) ==
    /\ arg.fn = fn
    /\ res = Pending
    /\ res' = value
    /\ UNCHANGED <<arg, evars, mvars, cvars>>

---------------------------------------------------------------------------
(* AITrader._parse_response (ai_trader.py) *)

\* what json.loads makes of a text: "invalid" is no JSON at all, "deep" is
\* JSON nested beyond the interpreter's recursion limit, "scalar" a number,
\* a string, true, false or null, "array" a list, "object" a dict whose
\* 'decisions' and 'cot_trace' members are of the kinds named
Json(kind, decisions_field, cot_field) ==
    [kind |-> kind, decisions |-> decisions_field, cot_trace |-> cot_field]

DecisionsFields == {"absent", "object", "empty_object", "array", "string", "null"}
CotFields == {"absent", "null", "text", "blank", "list", "empty_list", "object"}

JsonTexts ==
    { Json(k, "absent", "absent") : k \in {"invalid", "deep", "scalar", "array"} }
    \cup { Json("object", d, c) : d \in DecisionsFields, c \in CotFields }

\* a reply: a payload, bare or inside a ```json or a ``` fence, with or
\* without prose around it
ReplyText(fence, prose, payload) == [fence |-> fence, prose |-> prose, payload |-> payload]

ReplyTexts ==
    { ReplyText(f, pr, j) : f \in {"none", "json", "plain"}, pr \in BOOLEAN, j \in JsonTexts }

\* lines 249-254: the text handed to json.loads
Fenced(reply) ==
    IF reply.fence # "none" THEN reply.payload
    ELSE IF reply.prose THEN Json("invalid", "absent", "absent")
    ELSE reply.payload

\* json.loads: a value, JSONDecodeError, or RecursionError
Loads(text) ==
    CASE text.kind = "invalid" -> [raises |-> "JSONDecodeError", value |-> text]
      [] text.kind = "deep" -> [raises |-> "RecursionError", value |-> text]
      [] OTHER -> [raises |-> "", value |-> text]

\* lines 277-295
StringifyCotTrace(cot_trace) ==
    CASE cot_trace \in {"absent", "null", "blank", "empty_list"} -> "None"
      [] OTHER -> "text"

Parsed(raised, decisions_map, cot_trace) ==
    [done |-> TRUE, raised |-> raised, decisions |-> decisions_map, cot_trace |-> cot_trace]

\* lines 248-275; the decision map returned is "empty", the object under
\* 'decisions' ("member") or the whole parsed object ("whole")
ParseResponse(reply) ==
    LET loaded == Loads(Fenced(reply))
        parsed == loaded.value
    IN IF loaded.raises = "JSONDecodeError" THEN Parsed("", "empty", "None")
       ELSE IF loaded.raises # "" THEN Parsed(loaded.raises, "none", "none")
       ELSE IF parsed.kind = "object" /\ parsed.decisions # "absent"
       THEN Parsed("",
                   IF parsed.decisions = "object" THEN "member" ELSE "empty",
                   StringifyCotTrace(parsed.cot_trace))
       ELSE IF parsed.kind = "object" THEN Parsed("", "whole", "None")
       ELSE Parsed("", "empty", "None")

ParseResponseCall == Returns("_parse_response", ParseResponse(arg.reply))

---------------------------------------------------------------------------
(* MarketDataFetcher.is_within_trading_window (market_data.py) *)

\* times of day, in whole hours
DayHours == 24
Times == 0..(DayHours - 1)

Value(v) == [done |-> TRUE, value |-> v]

\* a window that does not wrap past midnight
IsWithinTradingWindowSameDay(now_time, start_time, end_time) ==
    start_time <= now_time /\ now_time <= end_time

\* lines 68-74
IsWithinTradingWindow(now_time, start_time, end_time) ==
    IF start_time <= end_time
    THEN start_time <= now_time /\ now_time <= end_time
    ELSE now_time >= start_time \/ now_time <= end_time

IsWithinTradingWindowCall ==
    Returns("is_within_trading_window",
            Value(IsWithinTradingWindow(arg.now, arg.start, arg.end)))

---------------------------------------------------------------------------
(* MarketDataFetcher.calculate_technical_indicators (market_data.py)        *)
(* prices are whole numbers; averages and percentages are in thousandths,   *)
(* cut off below the thousandth                                             *)

\* prices[-k], for a list of at least k prices
FromEnd(prices, k) == prices[Len(prices) - k + 1]

\* sum(prices[-k:])
RECURSIVE SumLast(_, _)
SumLast(prices, k) ==
    IF k = 0 \/ prices = <<>> THEN 0
    ELSE prices[Len(prices)] + SumLast(SubSeq(prices, 1, Len(prices) - 1), k - 1)

\* lines 315-317
Gains(prices) ==
    [i \in 1..(Len(prices) - 1) |-> Max(prices[i + 1] - prices[i], 0)]
Losses(prices) ==
    [i \in 1..(Len(prices) - 1) |-> Max(prices[i] - prices[i + 1], 0)]

\* lines 318-324: 100 - 100 / (1 + avg_gain / avg_loss)
Rsi14(prices) ==
    LET gain == SumLast(Gains(prices), 14)
        loss == SumLast(Losses(prices), 14)
    IN IF loss = 0 THEN 100000 ELSE (100000 * gain) \div (gain + loss)

\* lines 326-327: ((latest - earlier) / earlier) * 100 if earlier else 0
PctChange(latest, earlier) ==
    IF earlier = 0 THEN 0 ELSE ((latest - earlier) * 100000) \div earlier

NoIndicators == [empty |-> TRUE]

\* lines 304-338, history being what get_historical_prices returned
CalculateTechnicalIndicators(history) ==
    IF history = <<>> \/ Len(history) < 14 THEN NoIndicators
    ELSE [empty |-> FALSE,
          sma_5 |-> (SumLast(history, 5) * 1000) \div 5,
          sma_20 |-> IF Len(history) >= 20
                     THEN (SumLast(history, 20) * 1000) \div 20
                     ELSE (SumLast(history, Len(history)) * 1000) \div Len(history),
          rsi_14 |-> Rsi14(history),
          change_5d |-> PctChange(FromEnd(history, 1), FromEnd(history, 5)),
          change_20d |-> IF Len(history) >= 20
                         THEN PctChange(FromEnd(history, 1), FromEnd(history, 20))
                         ELSE 0,
          current_price |-> FromEnd(history, 1)]

CalculateTechnicalIndicatorsCall ==
    Returns("calculate_technical_indicators",
            Value(CalculateTechnicalIndicators(arg.history)))

---------------------------------------------------------------------------
(* execute_trading_cycle, one action per call it makes *)

\* what _get_market_state may build: no quote at all, the same quote for
\* every tracked symbol (all 0 after a failed fetch), or one symbol missing
MarketStates ==
    {EmptyMap}
    \cup { [s \in Tracked |-> pr] : pr \in Prices }
    \cup { [s \in Tracked \ {"D"} |-> pr] : pr \in Prices \ {0} }

Fails == {"none", "position", "trade"}

\* the cycle's result: kind is success, skipped or failure; error names the
\* call whose exception the except of line 75 turned into the result
Return(p, kind, error) ==
    /\ pc' = Set(pc, p, "done")
    /\ ret' = Set(ret, p, [kind |-> kind, error |-> error])

NoteCall(p, op, ok) ==
    calls' = Set(calls, p, Append(calls[p], Call(op, "", "", 0, 0, 0, 0, 0, ok)))

HasMutation(cs) == \E i \in 1..Len(cs) : cs[i].op \in MutationOps /\ cs[i].ok

\* a gate consulted only after the quotes were requested
GateAfterQuotes(p) ==
    /\ pc[p] = "gate"
    /\ \E open \in BOOLEAN :
          IF open
          THEN pc' = Set(pc, p, "market") /\ UNCHANGED <<ret, polls>>
          ELSE Return(p, "skipped", "window") /\ polls' = polls + 1
    /\ UNCHANGED <<cash, positions, market_state, portfolio, decisions, idx,
                   results, calls, oracle_calls, stale_write,
                   last_market_open_state, live_own, live_ref, last_live_date,
                   cache, store, clock, quotes, poll, cvars, pvars>>

\* lines 19-24
Gate(p) ==
    /\ pc[p] = "gate"
    /\ \E open \in BOOLEAN :
          IF open
          THEN pc' = Set(pc, p, "market") /\ UNCHANGED ret
          ELSE Return(p, "skipped", "window")
    /\ UNCHANGED <<cash, positions, market_state, portfolio, decisions, idx,
                   results, calls, oracle_calls, stale_write, mvars, cvars, pvars>>

\* lines 26-28, 84-96: one get_prices request, whose answer is drawn
\* from family
GetMarketState(p, family) ==
    /\ pc[p] = "market"
    /\ polls' = polls + 1
    /\ \/ /\ \E ms \in family : market_state' = Set(market_state, p, ms)
          /\ pc' = Set(pc, p, "portfolio")
          /\ UNCHANGED ret
       \/ /\ Return(p, "failure", "market")
          /\ UNCHANGED market_state
    /\ UNCHANGED <<cash, positions, portfolio, decisions, idx, results, calls,
                   oracle_calls, stale_write, last_market_open_state, live_own,
                   live_ref, last_live_date, cache, store, clock, quotes, poll,
                   cvars, pvars>>

\* lines 30-32
GetPortfolio(p) ==
    /\ pc[p] = "portfolio"
    /\ \/ /\ portfolio' = Set(portfolio, p, GetPortfolioOf(cash, positions))
          /\ pc' = Set(pc, p, "oracle")
          /\ UNCHANGED ret
       \/ /\ Return(p, "failure", "portfolio")
          /\ UNCHANGED portfolio
    /\ UNCHANGED <<cash, positions, market_state, decisions, idx, results,
                   calls, oracle_calls, stale_write, mvars, cvars, pvars>>

\* MakeDecision with one retry of a failed oracle call
MakeDecisionRetry(p, family) ==
    /\ pc[p] = "oracle"
    /\ oracle_calls' = Set(oracle_calls, p, oracle_calls[p] + 1)
    /\ \/ /\ \E dm \in family : decisions' = Set(decisions, p, dm)
          /\ pc' = Set(pc, p, "conversation")
          /\ UNCHANGED ret
       \/ /\ IF oracle_calls[p] = 0
             THEN UNCHANGED <<pc, ret>>
             ELSE Return(p, "failure", "oracle")
          /\ UNCHANGED decisions
    /\ UNCHANGED <<cash, positions, market_state, portfolio, idx, results,
                   calls, stale_write, mvars, cvars, pvars>>

\* lines 34-40: the oracle answers with a decision map, or raises
MakeDecision(p, family) ==
    /\ pc[p] = "oracle"
    /\ oracle_calls' = Set(oracle_calls, p, oracle_calls[p] + 1)
    /\ \/ /\ \E dm \in family : decisions' = Set(decisions, p, dm)
          /\ pc' = Set(pc, p, "conversation")
          /\ UNCHANGED ret
       \/ /\ Return(p, "failure", "oracle")
          /\ UNCHANGED decisions
    /\ UNCHANGED <<cash, positions, market_state, portfolio, idx, results,
                   calls, stale_write, mvars, cvars, pvars>>

\* lines 51-56
AddConversation(p) ==
    /\ pc[p] = "conversation"
    /\ \E ok \in BOOLEAN :
          /\ NoteCall(p, "add_conversation", ok)
          /\ IF ok
             THEN pc' = Set(pc, p, "execute") /\ UNCHANGED ret
             ELSE Return(p, "failure", "conversation")
    /\ UNCHANGED <<cash, positions, market_state, portfolio, decisions, idx,
                   results, oracle_calls, stale_write, mvars, cvars, pvars>>

NextEntry(p) == decisions[p][idx[p] + 1]

\* an executor that takes every symbol for tracked
IsTrackedAlways(symbol) == TRUE

\* line 122
IsTracked(symbol) == symbol \in Tracked

\* lines 121-123: an untracked symbol is passed over
SkipUntracked(p) ==
    /\ pc[p] = "execute"
    /\ idx[p] < Len(decisions[p])
    /\ ~IsTracked(NextEntry(p).symbol)
    /\ idx' = Set(idx, p, idx[p] + 1)
    /\ UNCHANGED <<cash, positions, pc, market_state, portfolio, decisions,
                   results, calls, ret, oracle_calls, stale_write, mvars, cvars, pvars>>

\* line 125 raising: the exception leaves _execute_decisions and reaches
\* the except of line 75
MalformedEntry(p) ==
    /\ pc[p] = "execute"
    /\ idx[p] < Len(decisions[p])
    /\ IsTracked(NextEntry(p).symbol)
    /\ SignalRaises(NextEntry(p).decision)
    /\ Return(p, "failure", "decision")
    /\ UNCHANGED <<cash, positions, market_state, portfolio, decisions, idx,
                   results, calls, oracle_calls, stale_write, mvars, cvars, pvars>>

\* lines 125-145 for one entry, against the portfolio read at line 30
ExecuteEntry(p) ==
    /\ pc[p] = "execute"
    /\ idx[p] < Len(decisions[p])
    /\ IsTracked(NextEntry(p).symbol)
    /\ ~SignalRaises(NextEntry(p).decision)
    /\ \E fail \in Fails :
          LET out == ExecuteOne(NextEntry(p).symbol, NextEntry(p).decision,
                                market_state[p], portfolio[p], fail)
              now == Ledger(cash, positions)
              after == ApplyCalls(now, out.calls)
          IN /\ results' = Set(results, p, Append(results[p], out.result))
             /\ calls' = Set(calls, p, calls[p] \o out.calls)
             /\ cash' = after.cashM
             /\ positions' = after.positions
             /\ stale_write' =
                  Set(stale_write, p,
                      \/ stale_write[p]
                      \/ /\ HasMutation(out.calls)
                         /\ now # ApplyCalls(portfolio[p], calls[p]))
    /\ idx' = Set(idx, p, idx[p] + 1)
    /\ UNCHANGED <<pc, market_state, portfolio, decisions, ret, oracle_calls,
                   mvars, cvars, pvars>>

\* lines 60-73
FinishCycle(p) ==
    /\ pc[p] = "execute"
    /\ idx[p] = Len(decisions[p])
    /\ \/ /\ \E ok \in BOOLEAN :
               /\ NoteCall(p, "record_account_value", ok)
               /\ Return(p, IF ok THEN "success" ELSE "failure",
                          IF ok THEN "" ELSE "record")
       \/ /\ Return(p, "failure", "portfolio")
          /\ UNCHANGED calls
    /\ UNCHANGED <<cash, positions, market_state, portfolio, decisions, idx,
                   results, oracle_calls, stale_write, mvars, cvars, pvars>>

Cycle(p, markets, maps) ==
    \/ Gate(p)
    \/ GetMarketState(p, markets)
    \/ GetPortfolio(p)
    \/ MakeDecision(p, maps)
    \/ AddConversation(p)
    \/ SkipUntracked(p)
    \/ MalformedEntry(p)
    \/ ExecuteEntry(p)
    \/ FinishCycle(p)

EngineInitOf(cashes, holdings, held) ==
    /\ cash \in cashes
    /\ \E H \in holdings, pos \in held : positions = [s \in H |-> pos]
    /\ pc = [p \in Procs |-> "gate"]
    /\ market_state = [p \in Procs |-> EmptyMap]
    /\ portfolio = [p \in Procs |-> Ledger(0, EmptyMap)]
    /\ decisions = [p \in Procs |-> <<>>]
    /\ idx = [p \in Procs |-> 0]
    /\ results = [p \in Procs |-> <<>>]
    /\ calls = [p \in Procs |-> <<>>]
    /\ ret = [p \in Procs |-> [kind |-> "none", error |-> ""]]
    /\ oracle_calls = [p \in Procs |-> 0]
    /\ stale_write = [p \in Procs |-> FALSE]

EngineInitWith(cashes, holdings) == EngineInitOf(cashes, holdings, {InitialPosition})

EngineInit(holdings) == EngineInitWith(InitialCashesM, holdings)

Init == EngineInit(InitialHoldings) /\ FetcherInit /\ NoCall

\* one cycle of one engine on an account in any of the initial states
Next == Cycle(1, MarketStates, DecisionMaps)

Spec == Init /\ [][Next]_vars

\* two cycles of the same account started side by side (two scheduler
\* ticks, or a tick and a manual run): nothing in the engine serializes them
ConcMarketStates == { [s \in Tracked |-> pr] : pr \in Prices \ {0} }
ConcDecisionMaps == { <<>> } \cup { <<e>> : e \in Entries }

NextConc == \E p \in Procs : Cycle(p, ConcMarketStates, ConcDecisionMaps)

SpecConc == Init /\ [][NextConc]_vars

\* the fetcher polled again and again, as the engine and the front end do
InitMarket == EngineInit({{}}) /\ FetcherInit /\ NoCall

NextMarket == (\E symbols \in Requests : GetPrices(symbols)) \/ Tick

SpecMarket == InitMarket /\ [][NextMarket]_vars

\* threads inside get_current_prices while time passes
NextCache == (\E t \in Threads : GetCurrentPricesStep(t)) \/ Tick

SpecCache == InitMarket /\ [][NextCache]_vars

\* _parse_response applied to one reply
InitParse ==
    /\ EngineInit({{}}) /\ FetcherInit
    /\ arg \in { [fn |-> "_parse_response", reply |-> r] : r \in ReplyTexts }
    /\ res = Pending

NextParse == ParseResponseCall

SpecParse == InitParse /\ [][NextParse]_vars

\* is_within_trading_window applied to one time and one window
InitWindow ==
    /\ EngineInit({{}}) /\ FetcherInit
    /\ arg \in { [fn |-> "is_within_trading_window", now |-> n, start |-> st, end |-> en] :
                  n \in Times, st \in Times, en \in Times }
    /\ res = Pending

NextWindow == IsWithinTradingWindowCall

SpecWindow == InitWindow /\ [][NextWindow]_vars

\* calculate_technical_indicators applied to one price history: n prices,
\* all 100 but the latest and those 4, 5, 19 and 20 steps before it
History(n, latest, back4, back5, back19, back20) ==
    [i \in 1..n |->
        CASE i = n -> latest
          [] n - i = 4 -> back4
          [] n - i = 5 -> back5
          [] n - i = 19 -> back19
          [] n - i = 20 -> back20
          [] OTHER -> 100]

HistoryLengths == {0, 13, 14, 19, 20, 21, 25}
LatestPrices == {100, 110}
EarlierPrices == {0, 100, 200}

Histories ==
    { History(n, latest, b4, b5, b19, b20) :
        n \in HistoryLengths, latest \in LatestPrices,
        b4 \in EarlierPrices, b5 \in EarlierPrices,
        b19 \in EarlierPrices, b20 \in EarlierPrices }

InitIndicators ==
    /\ EngineInit({{}}) /\ FetcherInit
    /\ arg \in { [fn |-> "calculate_technical_indicators", history |-> h] :
                  h \in Histories }
    /\ res = Pending

NextIndicators == CalculateTechnicalIndicatorsCall

SpecIndicators == InitIndicators /\ [][NextIndicators]_vars

\* one cycle with a single decision, over the accounts, quotes and
\* buy_to_enter fields that the sizing of _execute_buy tells apart
BuyCashesM == {0, 100000, 100000000}
BuyPrices == {0, 10, 1000}
BuyQuantities ==
    {Absent, Text, Num(-10), Num(0), Num(10), Num(25), Num(90), Num(100),
     Num(990), Num(995), Num(5000)}
BuyLeverages == {Absent, Num(10), Num(100), Num(0), Num(-10)}
BuyRisks == {Absent, None, Text, Num(5), Num(10), Num(30), Num(50), Num(100)}
BuyShapes ==
    { Decision("str", "buy_to_enter", q, l, r) :
        q \in BuyQuantities, l \in BuyLeverages, r \in BuyRisks }
BuyMarketStates == { [s \in Tracked |-> pr] : pr \in BuyPrices }
BuyDecisionMaps ==
    ConcDecisionMaps \cup { <<Entry(s, d)>> : s \in {"A", "D"}, d \in BuyShapes }

InitBuy == EngineInitWith(BuyCashesM, InitialHoldings) /\ FetcherInit /\ NoCall

NextBuy == Cycle(1, BuyMarketStates, BuyDecisionMaps)

SpecBuy == InitBuy /\ [][NextBuy]_vars

\* one cycle with a single decision on an account whose positions were
\* entered at 10 or at 1000 yuan, with quotes below, at and above the entry
ClosePositions ==
    { [quantity |-> 10, avg_priceM |-> 1000000, leverage |-> 1, side |-> "long"],
      [quantity |-> 3, avg_priceM |-> 10000, leverage |-> 2, side |-> "long"] }
ClosePrices == {0, 7, 10, 1050}
CloseMarketStates ==
    { [s \in Tracked |-> pr] : pr \in ClosePrices }
    \cup { [s \in Tracked \ {"A"} |-> pr] : pr \in {10} }

InitClose == EngineInitOf(InitialCashesM, InitialHoldings, ClosePositions) /\ FetcherInit /\ NoCall

NextClose == Cycle(1, CloseMarketStates, ConcDecisionMaps)

SpecClose == InitClose /\ [][NextClose]_vars

---------------------------------------------------------------------------
(* Claims *)

CallsOf(p, ops) == { i \in 1..Len(calls[p]) : calls[p][i].op \in ops }

\* C1: the account never holds more than max_positions (3) distinct open
\* positions, also after a cycle with several buy_to_enter decisions for
\* symbols not yet held.
C1_PositionCap == Cardinality(DOMAIN positions) <= max_positions

\* C2: whenever a buy is accepted, required_margin + fee does not exceed the
\* cash the ledger holds at the moment update_position is applied.
C2_BuyWithinLedgerCash ==
    [][\A p \in Procs :
          \A i \in (Len(calls[p]) + 1)..Len(calls'[p]) :
             calls'[p][i].op = "update_position" =>
                ~ExceedsCash(calls'[p][i].quantity, calls'[p][i].price,
                             calls'[p][i].leverage, cash)]_vars

\* C3: a cycle that returns a failure result has made no update_position,
\* close_position or add_trade call.
C3_FailureBeforeExecution ==
    \A p \in Procs : ret[p].kind = "failure" => CallsOf(p, MutationOps) = {}

RECURSIVE TrackedKeys(_)
TrackedKeys(dm) ==
    IF dm = <<>> THEN <<>>
    ELSE (IF Head(dm).symbol \in Tracked THEN <<Head(dm).symbol>> ELSE <<>>)
         \o TrackedKeys(Tail(dm))

Coins(rs) == [i \in 1..Len(rs) |-> rs[i].coin]

ExecutionBegun(p) ==
    \E i \in 1..Len(calls[p]) : calls[p][i].op = "add_conversation" /\ calls[p][i].ok

\* C4: once a cycle that began its execution pass has returned, the results
\* hold exactly one entry per decision for a tracked symbol, in decision
\* order, whatever the shape of the entries.
C4_OneResultPerDecision ==
    \A p \in Procs :
       pc[p] = "done" /\ ExecutionBegun(p) =>
          Coins(results[p]) = TrackedKeys(decisions[p])

\* C5: when make_decision raises, the cycle returns a failure, the oracle was
\* called exactly once and no ledger operation was invoked in the cycle.
C5_OracleFailureIsFailClosed ==
    \A p \in Procs :
       ret[p].error = "oracle" =>
          /\ ret[p].kind = "failure"
          /\ pc[p] = "done"
          /\ oracle_calls[p] = 1
          /\ CallsOf(p, LedgerOps) = {}
          /\ Ledger(cash, positions) = portfolio[p]

C5_Witness == ret[1].error = "oracle" /\ DOMAIN portfolio[1].positions # {}

\* C6: no cycle changes the account's ledger after another cycle has changed
\* it since the first one read its portfolio.
C6_NoStaleWrite == \A p \in Procs : ~stale_write[p]

\* C7: no update_position, close_position or add_trade call is made at
\* price 0, and no successful result carries price 0.
C7_ZeroPriceIsUnknown ==
    \A p \in Procs :
       /\ \A i \in CallsOf(p, MutationOps) : calls[p][i].price # 0
       /\ \A i \in 1..Len(results[p]) :
             results[p][i].kind = "ok" => results[p][i].price # 0

Snapshot == LastLive(cache, live_own, live_ref)

\* a step that is one get_prices call
IsPoll == polls' = polls + 1

\* C8: a closed-market poll whose live fetch raises, that finds no stored
\* closing price, and whose symbols all have a live quote in the last live
\* snapshot, returns the snapshot's prices tagged previous_live.
C8_PreviousLiveFallback ==
    [][(/\ IsPoll
        /\ ~poll'.open
        /\ poll'.via = "raise"
        /\ poll'.stored = {}
        /\ \A s \in poll'.symbols : s \in DOMAIN Snapshot /\ ~Snapshot[s].placeholder)
       => \A s \in poll'.symbols :
             /\ s \in DOMAIN quotes'
             /\ quotes'[s].source = "previous_live"
             /\ quotes'[s].price = Snapshot[s].price]_vars

\* C9: _persist_closing_prices runs only in a poll that finds the market
\* closed after the poll before found it open, and it runs before the answer
\* is computed: a snapshot price it stored is the closing price returned.
C9_PersistOncePerTransition ==
    [][(IsPoll /\ poll'.persisted)
       => /\ ~poll'.open
          /\ poll.open
          /\ \A s \in poll'.symbols \cap DOMAIN Snapshot :
                store'[s] = [price |-> Snapshot[s].price, price_date |-> last_live_date]
                => quotes'[s] = Payload(Snapshot[s].price, "closing", last_live_date, FALSE)]_vars

C9_Witness ==
    /\ poll.persisted
    /\ \E s \in DOMAIN quotes : quotes[s].source = "closing" /\ quotes[s].price \in LivePrices

\* C10: an open-market poll whose upstream fetch raises returns, for each
\* requested configured symbol, a quote with price 0 and no freshness tag.
C10_FailedFetchUntagged ==
    (poll.open /\ poll.via = "raise")
    => \A s \in poll.symbols \cap Stocks :
          s \in DOMAIN quotes /\ quotes[s].price = 0 /\ quotes[s].source = ""

\* C11: every buy that _execute_buy accepts with a leverage of at least 1
\* executes a positive whole quantity with quantity * price * (1 + fee_rate)
\* within the cash of the portfolio it was given.
AcceptedBuys(p) ==
    { i \in CallsOf(p, {"update_position"}) : calls[p][i].leverage >= 1 }

C11_AcceptedBuyAffordable ==
    \A p \in Procs :
       /\ \A i \in AcceptedBuys(p) :
             /\ calls[p][i].quantity >= 1
             /\ calls[p][i].quantity * calls[p][i].price * (FeeDen + 1)
                   <= portfolio[p].cashM
       /\ \A i \in 1..Len(results[p]) :
             (results[p][i].kind = "ok" /\ results[p][i].signal = "buy_to_enter"
              /\ results[p][i].leverage >= 1)
             => /\ results[p][i].quantity >= 1
                /\ results[p][i].quantity * results[p][i].price * (FeeDen + 1)
                      <= portfolio[p].cashM

\* a leveraged buy that took all the cash affords
C11_Witness ==
    \E i \in AcceptedBuys(1) :
       /\ calls[1][i].leverage = 10
       /\ calls[1][i].ok
       /\ (calls[1][i].quantity + 1) * calls[1][i].price * (FeeDen + 1)
             > portfolio[1].cashM

\* the step in which cycle p runs the try of lines 127-145 for its next entry
Executes(p) ==
    /\ pc[p] = "execute"
    /\ idx'[p] = idx[p] + 1
    /\ NextEntry(p).symbol \in Tracked

LastResult(p) == results'[p][Len(results'[p])]

\* C12: a buy_to_enter for a symbol the cycle's portfolio does not hold ends
\* in an error result and no ledger call when that portfolio holds 3
\* symbols; a buy_to_enter for a held symbol is never refused by the cap.
C12_CapOnNewSymbolsOnly ==
    [][\A p \in Procs :
          (Executes(p) /\ SignalOf(NextEntry(p).decision) = "buy_to_enter")
          => /\ Len(results'[p]) = Len(results[p]) + 1
             /\ (/\ NextEntry(p).symbol \notin DOMAIN portfolio[p].positions
                 /\ Cardinality(DOMAIN portfolio[p].positions) >= 3)
                => /\ LastResult(p).kind = "error"
                   /\ LastResult(p).coin = NextEntry(p).symbol
                   /\ calls'[p] = calls[p]
                   /\ cash' = cash /\ positions' = positions
             /\ NextEntry(p).symbol \in DOMAIN portfolio[p].positions
                => LastResult(p).error # "max positions"]_vars

\* a fourth symbol was refused by the cap with the ledger untouched
C12_Witness ==
    /\ Cardinality(DOMAIN portfolio[1].positions) = 3
    /\ Len(results[1]) = 1
    /\ results[1][1].error = "max positions"
    /\ results[1][1].coin \notin DOMAIN portfolio[1].positions
    /\ CallsOf(1, MutationOps) = {}

\* the entry cycle p executes next is a buy_to_enter that reaches the sizing
\* of lines 160-170 with a leverage of at least 1; Sizes: and with a
\* risk_budget_pct that float() accepts
ReachesSizing(p) ==
    LET e == NextEntry(p)
        d == e.decision
    IN /\ Executes(p)
       /\ SignalOf(d) = "buy_to_enter"
       /\ IntOk(Get(d.quantity, Num(0)))
       /\ IntOk(Get(d.leverage, Num(10))) /\ IntOf(Get(d.leverage, Num(10))) >= 1
       /\ e.symbol \in DOMAIN market_state[p] /\ market_state[p][e.symbol] > 0
       /\ ~CapReached(e.symbol, portfolio[p])

Sizes(p) ==
    /\ ReachesSizing(p)
    /\ FloatOk(Get(NextEntry(p).decision.risk_budget_pct, Num(30)))

\* floor(cash / (price * (1 + fee_rate)))
MaxAffordableQty(p) ==
    portfolio[p].cashM \div (market_state[p][NextEntry(p).symbol] * (FeeDen + 1))

\* floor(cash * risk_pct / (price * (1 + fee_rate))), risk_pct within 1% and 5%
RiskBasedQty(p) ==
    LET risk10 == Get(NextEntry(p).decision.risk_budget_pct, Num(30)).v
    IN Scale(portfolio[p].cashM, Min(Max(risk10, 10), 50), 1000)
          \div (market_state[p][NextEntry(p).symbol] * (FeeDen + 1))

Replacement(p) ==
    Min(MaxAffordableQty(p),
        IF RiskBasedQty(p) > 0 THEN RiskBasedQty(p) ELSE MaxAffordableQty(p))

\* the requested quantity, in tenths
RequestedTenths(p) == Get(NextEntry(p).decision.quantity, Num(0)).v

\* the buy of this step went to the ledger with quantity q, or was
\* refused without a ledger call when q <= 0
SizedAs(p, q) ==
    IF q <= 0
    THEN /\ LastResult(p).kind = "error"
         /\ calls'[p] = calls[p]
    ELSE /\ Len(calls'[p]) > Len(calls[p])
         /\ calls'[p][Len(calls[p]) + 1].op = "update_position"
         /\ calls'[p][Len(calls[p]) + 1].quantity = q
         /\ LastResult(p).kind = "ok" => LastResult(p).quantity = q

\* C13 as stated: a requested quantity <= 0 or > max_affordable_qty becomes
\* min(max_affordable_qty, risk_based_qty) (max_affordable_qty when
\* risk_based_qty is 0), a requested quantity in 1..max_affordable_qty is
\* executed unchanged, and a resulting quantity <= 0 is refused.
C13_SizingOfRequest ==
    [][\A p \in Procs :
          Sizes(p) =>
             /\ (RequestedTenths(p) <= 0 \/ RequestedTenths(p) > MaxAffordableQty(p) * 10)
                => SizedAs(p, Replacement(p))
             /\ (/\ RequestedTenths(p) % 10 = 0
                 /\ RequestedTenths(p) \div 10 \in 1..MaxAffordableQty(p))
                => SizedAs(p, RequestedTenths(p) \div 10)]_vars

\* C13, amended: the rule applies to the requested quantity truncated to a
\* whole number by int(): the truncated request is replaced when it is <= 0
\* or > max_affordable_qty and executed unchanged otherwise.
C13_SizingOfTruncatedRequest ==
    [][\A p \in Procs :
          Sizes(p) =>
             LET requested == Trunc(RequestedTenths(p), 10)
             IN IF requested <= 0 \/ requested > MaxAffordableQty(p)
                THEN SizedAs(p, Replacement(p))
                ELSE SizedAs(p, requested)]_vars

\* cash 100000, price 1000, risk 3%: a request of 500 was executed as 2
C13_Witness ==
    /\ portfolio[1].cashM = 100000000
    /\ Len(decisions[1]) = 1 /\ idx[1] = 1
    /\ decisions[1][1].decision.quantity = Num(5000)
    /\ decisions[1][1].decision.risk_budget_pct = Num(30)
    /\ Len(results[1]) = 1
    /\ results[1][1].kind = "ok"
    /\ results[1][1].price = 1000
    /\ results[1][1].quantity = 2

\* the risk percentage, in tenths of a percent, that sizes the buy: within
\* 1% and 5%, and 3% for an absent or invalid risk_budget_pct
DefaultedRisk10(p) ==
    LET risk == Get(NextEntry(p).decision.risk_budget_pct, Num(30))
    IN IF FloatOk(risk) THEN Min(Max(risk.v, 10), 50) ELSE 30

DefaultedRiskQty(p) ==
    Scale(portfolio[p].cashM, DefaultedRisk10(p), 1000)
       \div (market_state[p][NextEntry(p).symbol] * (FeeDen + 1))

\* C14: every buy that reaches the sizing is sized with a risk percentage
\* within [1%, 5%]: the decision's risk_budget_pct clamped, or 3% when it
\* is absent, null or not a number; the buy is sized, not failed.
C14_RiskClampedOrDefaulted ==
    [][\A p \in Procs :
          ReachesSizing(p) =>
             LET requested == Trunc(RequestedTenths(p), 10)
                 replacement ==
                    Min(MaxAffordableQty(p),
                        IF DefaultedRiskQty(p) > 0 THEN DefaultedRiskQty(p)
                        ELSE MaxAffordableQty(p))
             IN IF requested <= 0 \/ requested > MaxAffordableQty(p)
                THEN SizedAs(p, replacement)
                ELSE SizedAs(p, requested)]_vars

\* the entry cycle p executes next is a close_position for a symbol that
\* the cycle's portfolio holds and that has a quote
Closes(p) ==
    /\ Executes(p)
    /\ SignalOf(NextEntry(p).decision) = "close_position"
    /\ NextEntry(p).symbol \in DOMAIN portfolio[p].positions
    /\ NextEntry(p).symbol \in DOMAIN market_state[p]

\* C15: closing a held long position (entry price p0, quantity q) at the
\* current price p closes the whole position through the ledger, and the
\* trade recorded and the result carry quantity q, price p,
\* fee = q * p * fee_rate and pnl = (p - p0) * q - fee.
C15_CloseAmounts ==
    [][\A p \in Procs :
          Closes(p) =>
             LET symbol == NextEntry(p).symbol
                 held == portfolio[p].positions[symbol]
                 price == market_state[p][symbol]
                 feeM == (held.quantity * price * 1000) \div FeeDen
                 pnlM == (price * 1000 - held.avg_priceM) * held.quantity - feeM
                 n == Len(calls[p])
             IN /\ Len(calls'[p]) > n
                /\ calls'[p][n + 1].op = "close_position"
                /\ calls'[p][n + 1].symbol = symbol
                /\ calls'[p][n + 1].ok =>
                      /\ symbol \notin DOMAIN positions'
                      /\ Len(calls'[p]) = n + 2
                      /\ calls'[p][n + 2] =
                            Call("add_trade", symbol, "close_position",
                                 held.quantity, price, held.leverage, pnlM, feeM,
                                 calls'[p][n + 2].ok)
                /\ LastResult(p).kind # "error" =>
                      LastResult(p) =
                         Result(symbol, "ok", "close_position", held.quantity,
                                price, held.leverage, feeM, pnlM, "")]_vars

\* entry price 1000, quantity 10, closed at 1050: fee 10.5, net pnl 489.5
C15_Witness ==
    /\ Len(results[1]) = 1
    /\ results[1][1].kind = "ok"
    /\ results[1][1].signal = "close_position"
    /\ results[1][1].quantity = 10
    /\ results[1][1].price = 1050
    /\ results[1][1].feeM = 10500
    /\ results[1][1].pnlM = 489500
    /\ results[1][1].coin \notin DOMAIN positions
    /\ \E i \in CallsOf(1, {"add_trade"}) :
          calls[1][i].pnlM = 489500 /\ calls[1][i].feeM = 10500

\* cycle p takes its next decision entry in this step
Takes(p) ==
    /\ pc[p] = "execute"
    /\ idx[p] < Len(decisions[p])
    /\ idx'[p] # idx[p] \/ pc'[p] # pc[p]

\* a decision object whose signal is hold, sell_to_enter or none that the
\* executor knows, or close_position for a symbol the portfolio does not hold
WithoutEffect(symbol, decision, pf) ==
    /\ decision.obj
    /\ \/ decision.sig_t # "str"
       \/ SignalOf(decision) \notin {"buy_to_enter", "close_position"}
       \/ /\ SignalOf(decision) = "close_position"
          /\ symbol \notin DOMAIN pf.positions

YieldsResultOnly(p) ==
    /\ Len(results'[p]) = Len(results[p]) + 1
    /\ LastResult(p).coin = NextEntry(p).symbol
    /\ LastResult(p).kind =
          (IF NextEntry(p).decision.sig_t = "str"
              /\ SignalOf(NextEntry(p).decision) = "hold"
           THEN "info" ELSE "error")
    /\ calls'[p] = calls[p]
    /\ cash' = cash
    /\ positions' = positions

\* C16: a tracked decision whose signal is hold, sell_to_enter or
\* unrecognized, and a close_position for a symbol with no position in the
\* cycle's portfolio, yields one result (informational for hold, an error
\* otherwise), makes no ledger call and leaves the ledger as it was.
C16_NoEffectDecisions ==
    [][\A p \in Procs :
          (/\ Takes(p)
           /\ NextEntry(p).symbol \in Tracked
           /\ WithoutEffect(NextEntry(p).symbol, NextEntry(p).decision,
                            portfolio[p]))
          => YieldsResultOnly(p)]_vars

\* C17: no ledger call is made for a symbol outside the tracked universe:
\* a decision entry under such a symbol is passed over, whatever it holds,
\* with no ledger call, no result and no change of the ledger, and the
\* cycle goes on.
C17_UntrackedSkipped ==
    [][\A p \in Procs :
          /\ \A i \in (Len(calls[p]) + 1)..Len(calls'[p]) :
                calls'[p][i].op \in MutationOps => calls'[p][i].symbol \in Tracked
          /\ (Takes(p) /\ NextEntry(p).symbol \notin Tracked)
             => /\ calls'[p] = calls[p]
                /\ results'[p] = results[p]
                /\ cash' = cash /\ positions' = positions
                /\ idx'[p] = idx[p] + 1
                /\ pc'[p] = "execute"]_vars

\* a malformed entry under an untracked symbol was passed over and the
\* tracked buy after it was executed
C17_Witness ==
    /\ Len(decisions[1]) = 2 /\ idx[1] = 2
    /\ decisions[1][1].symbol \in Untracked
    /\ ~decisions[1][1].decision.obj
    /\ Len(results[1]) = 1
    /\ results[1][1].kind = "ok"
    /\ CallsOf(1, MutationOps) # {}

\* a ledger call of cycle p has raised
FailedMutations(cs) == { i \in 1..Len(cs) : cs[i].op \in MutationOps /\ ~cs[i].ok }

C19_SkippedCycleDoesNothing ==
    \A p \in Procs :
       ret[p].kind = "skipped" =>
          /\ pc[p] = "done"
          /\ ret[p].error = "window"
          /\ polls = 0
          /\ market_state[p] = EmptyMap
          /\ oracle_calls[p] = 0
          /\ calls[p] = <<>>
          /\ results[p] = <<>>

C19_Witness ==
    /\ ret[1].kind = "skipped"
    /\ pc[1] = "done"
    /\ DOMAIN positions # {}

\* C20: a get_current_prices call that runs beside others for the same
\* symbol set never fails on a missing timestamp, and when it answers from
\* the cache the timestamp it judged the age by is the one written for
\* the quotes it returns.
C20_CacheEntryAtomic ==
    \A t \in Threads :
       /\ observed[t].kind # "KeyError"
       /\ observed[t].kind = "cache" => observed[t].quotes = observed[t].stamp

\* C21: _parse_response raises for no reply text; a text that json.loads
\* cannot parse, or that parses to something other than an object, gives
\* an empty decision map and no reasoning; the decision map is always an
\* object.
C21_ParseNeverRaises ==
    (arg.fn = "_parse_response" /\ res.done) =>
       /\ res.raised = ""
       /\ res.decisions \in {"empty", "member", "whole"}
       /\ Fenced(arg.reply).kind # "object"
          => res.decisions = "empty" /\ res.cot_trace = "None"

\* the times from start round the clock to end, both included
HoursFromTo(start_time, end_time) ==
    { (start_time + k) % DayHours : k \in 0..((end_time - start_time) % DayHours) }

\* C22: is_within_trading_window answers true exactly for start <= now <=
\* end when start <= end, and exactly for now >= start or now <= end when
\* start > end, the bounds included: exactly for the times from start
\* round the clock to end; with start 22:00 and end 06:00, 23:00 and 02:00
\* are open and 12:00 is closed.
C22_WindowWraps ==
    (arg.fn = "is_within_trading_window" /\ res.done) =>
       /\ arg.start <= arg.end
          => (res.value <=> (arg.start <= arg.now /\ arg.now <= arg.end))
       /\ arg.start > arg.end
          => (res.value <=> (arg.now >= arg.start \/ arg.now <= arg.end))
       /\ res.value <=> arg.now \in HoursFromTo(arg.start, arg.end)
       /\ (arg.start = 22 /\ arg.end = 6)
          => /\ arg.now \in {23, 2} => res.value
             /\ arg.now = 12 => ~res.value

C22_Witness ==
    /\ arg.fn = "is_within_trading_window" /\ res.done
    /\ arg.start = 22 /\ arg.end = 6 /\ arg.now = 2
    /\ res.value

\* C23: while the market is found open, the last-known-live snapshot, which
\* the open-to-closed handoff persists, holds the most recent live price of
\* every symbol quoted live in this open period, also after a poll for a
\* different symbol set.
C23_SnapshotKeptPerSymbol ==
    (poll.open /\ poll.via # "raise") =>
       \A s \in DOMAIN poll.live :
          s \in DOMAIN Snapshot /\ Snapshot[s].price = poll.live[s]

C25_CacheHoldsFetchedQuotes ==
    [][(IsPoll /\ poll'.fetched # {}) =>
          LET key == poll'.fetched
          IN /\ (cache[key].present /\ clock - cache[key].time < cache_duration)
                    => poll'.via = "cache"
             /\ (cache[key].present /\ clock - cache[key].time >= cache_duration)
                    => poll'.via \in {"upstream", "raise"}
             /\ (poll.via = "raise" /\ poll.fetched = key) => poll'.via # "cache"
             /\ \A k \in DOMAIN cache' :
                   \A s \in DOMAIN cache'[k].prices : ~cache'[k].prices[s].placeholder]_vars

\* C26: every update_position call and every buy add_trade call made by
\* the executor carries a leverage of at least 1.
C26_LeverageAtLeastOne ==
    \A p \in Procs :
       \A i \in CallsOf(p, {"update_position", "add_trade"}) :
          calls[p][i].signal = "buy_to_enter" => calls[p][i].leverage >= 1

\* the change, in percent of the earlier price, from the price k steps
\* before the latest to the latest; 0 when the earlier price is 0
ChangeOver(prices, k) ==
    PctChange(prices[Len(prices)], prices[Len(prices) - k])

\* C27: for a history of at least 14 prices, change_5d is the change from
\* the price 5 steps before the latest, and change_20d the change from the
\* price 20 steps before the latest when the history reaches that far.
C27_ChangeOverFiveAndTwenty ==
    (arg.fn = "calculate_technical_indicators" /\ res.done
       /\ Len(arg.history) >= 14) =>
       /\ ~res.value.empty
       /\ res.value.change_5d = ChangeOver(arg.history, 5)
       /\ Len(arg.history) > 20
             => res.value.change_20d = ChangeOver(arg.history, 20)

\* C28: the last-known-live snapshot holds no price-0 placeholder of a
\* failed fetch, and no row of the store holds the price 0 of one.
C28_NoPlaceholderRecorded ==
    /\ \A s \in DOMAIN Snapshot : ~Snapshot[s].placeholder
    /\ \A s \in DOMAIN store : store[s] # NoRow => store[s].price \in LivePrices

\* the position call that a trade of the signal follows
MutationOf(signal) ==
    IF signal = "buy_to_enter" THEN "update_position" ELSE "close_position"

\* C29: in the calls of one cycle, every add_trade comes straight after the
\* position call of its symbol and signal, which succeeded; and a symbol
\* has at most one position call and at most one add_trade.
C29_TradeAfterPositionCall ==
    \A p \in Procs :
       /\ \A i \in CallsOf(p, {"add_trade"}) :
             /\ i > 1
             /\ calls[p][i - 1].op = MutationOf(calls[p][i].signal)
             /\ calls[p][i - 1].symbol = calls[p][i].symbol
             /\ calls[p][i - 1].ok
       /\ \A s \in Symbols :
             /\ Cardinality({ i \in CallsOf(p, {"update_position", "close_position"}) :
                                calls[p][i].symbol = s }) <= 1
             /\ Cardinality({ i \in CallsOf(p, {"add_trade"}) :
                                calls[p][i].symbol = s }) <= 1

\* a cycle whose position call failed for one symbol, with no trade
\* recorded for it, and succeeded for another, with its trade recorded
C29_Witness ==
    \E s \in Tracked, t \in Tracked :
       /\ s # t
       /\ \E i \in CallsOf(1, {"update_position", "close_position"}) :
             /\ calls[1][i].symbol = s /\ ~calls[1][i].ok
       /\ \A i \in CallsOf(1, {"add_trade"}) : calls[1][i].symbol # s
       /\ \E i \in CallsOf(1, {"add_trade"}) : calls[1][i].symbol = t
       /\ ret[1].kind = "success"

====
